---------------------------- MODULE Spec2Model ----------------------------
(***************************************************************************)
(* OpenHardwareMonitor exporter (scraper.py): the sensor tree normalizer   *)
(* (_traverse_node, _parse_value, _infer_hardware_type), the metric name   *)
(* mapper (sensor_type_to_metric_name) and the metric registry             *)
(* (AppMetrics.gauges, AppMetrics.fetch) driven by run_metrics_loop.       *)
(*                                                                         *)
(* Python strings are sequences of one-character strings, so that strip,   *)
(* split, lower, capitalize, re.sub and float are modelled by what they do *)
(* to the characters.  JSON values are records [tag, v]; a JSON object     *)
(* (a node of data.json) is a record whose keys hold <<>> (key absent) or  *)
(* <<value>> (key present).                                                *)
(***************************************************************************)
EXTENDS Integers, Sequences, FiniteSets, TLC

VARIABLES
    pc,        \* position of run_metrics_loop: "fetch" | "sleep" | "crashed"
    gauges,    \* AppMetrics.gauges: sensor type -> metric handle
    registry,  \* prometheus_client.REGISTRY: the metric names registered
    series,    \* the labelled children of the gauges: time series -> value
    nextId,    \* identity of the next Gauge object constructed
    exc,       \* the exception that ended the process ("none" while it runs)
    resp,      \* what requests.get gave the tick that just ran (<<>>: no tick since the sleep)
    data,      \* fetch's local `data`: the mapping collect_all_sensors returned
    observed,  \* history: the sensor types of every mapping returned so far
    latest     \* history: time series -> value of the latest reading returned for it

vars == <<pc, gauges, registry, series, nextId, exc, resp, data, observed, latest>>

(***************************************************************************)
(* Bounds of the model.                                                    *)
(***************************************************************************)
\* the most children the synthetic root node has in the polling specification
MaxTops == 2
\* the most nodes below the root in the traversal specification
MaxNodes == 3
\* the longest arbitrary value string in the value specification
MaxLen == 4
\* the most three-digit groups after the leading group of a formatted number
MaxGroups == 1

(***************************************************************************)
(* Characters and Python's string methods.                                 *)
(***************************************************************************)
LowerLetters == <<"a", "b", "c", "d", "e", "f", "g", "h", "i", "j", "k", "l", "m", "n", "o", "p", "q", "r", "s", "t", "u", "v", "w", "x", "y", "z">>
UpperLetters == <<"A", "B", "C", "D", "E", "F", "G", "H", "I", "J", "K", "L", "M", "N", "O", "P", "Q", "R", "S", "T", "U", "V", "W", "X", "Y", "Z">>
DigitChars == <<"0", "1", "2", "3", "4", "5", "6", "7", "8", "9">>

Range(f) == {f[i] : i \in DOMAIN f}

IndexOf(seq, c) == CHOOSE i \in DOMAIN seq : seq[i] = c

\* str.lower / str.upper on one character
LowerChar(c) == IF c \in Range(UpperLetters) THEN LowerLetters[IndexOf(UpperLetters, c)] ELSE c

UpperChar(c) == IF c \in Range(LowerLetters) THEN UpperLetters[IndexOf(LowerLetters, c)] ELSE c

Lower(s) == [i \in 1..Len(s) |-> LowerChar(s[i])]

Upper(s) == [i \in 1..Len(s) |-> UpperChar(s[i])]

\* str.capitalize: first character upper-cased, the rest lower-cased
Capitalize(s) == [i \in 1..Len(s) |-> IF i = 1 THEN UpperChar(s[i]) ELSE LowerChar(s[i])]

\* the whitespace str.strip() and str.split() act on
Whitespace == {" "}

RECURSIVE StripLeft(_, _)
StripLeft(s, cs) ==
    IF s = <<>> \/ s[1] \notin cs THEN s ELSE StripLeft(Tail(s), cs)

RECURSIVE StripRight(_, _)
StripRight(s, cs) ==
    IF s = <<>> \/ s[Len(s)] \notin cs THEN s ELSE StripRight(SubSeq(s, 1, Len(s) - 1), cs)

\* str.strip(chars)
Strip(s, cs) == StripRight(StripLeft(s, cs), cs)

RECURSIVE SplitAcc(_, _, _, _)
SplitAcc(s, c, cur, acc) ==
    IF s = <<>> THEN Append(acc, cur)
    ELSE IF s[1] = c THEN SplitAcc(Tail(s), c, <<>>, Append(acc, cur))
    ELSE SplitAcc(Tail(s), c, Append(cur, s[1]), acc)

\* str.split(sep): empty pieces are kept
Split(s, c) == SplitAcc(s, c, <<>>, <<>>)

RECURSIVE SplitWsAcc(_, _, _)
SplitWsAcc(s, cur, acc) ==
    IF s = <<>> THEN (IF cur = <<>> THEN acc ELSE Append(acc, cur))
    ELSE IF s[1] \in Whitespace
         THEN SplitWsAcc(Tail(s), <<>>, IF cur = <<>> THEN acc ELSE Append(acc, cur))
    ELSE SplitWsAcc(Tail(s), Append(cur, s[1]), acc)

\* str.split(): split on runs of whitespace, no empty pieces
SplitWs(s) == SplitWsAcc(s, <<>>, <<>>)

\* str.replace(c, '')
Remove(s, c) == SelectSeq(s, LAMBDA x : x # c)

\* str.startswith(c) for a one-character prefix
StartsWith(s, c) == s # <<>> /\ s[1] = c

\* `key in segment` on strings: key is a substring of s
Contains(s, key) ==
    \E i \in 0..(Len(s) - Len(key)) : SubSeq(s, i + 1, i + Len(key)) = key

\* [p for p in parts if p]
NonEmptyParts(parts) == SelectSeq(parts, LAMBDA p : p # <<>>)

(***************************************************************************)
(* Python values that come out of resp.json().                             *)
(***************************************************************************)
JStr(s) == [tag |-> "str", v |-> s]

JNum(s) == [tag |-> "num", v |-> s]

JList(l) == [tag |-> "list", v |-> l]

JNone == [tag |-> "null", v |-> <<>>]

JObj(node_id, text, value, children) ==
    [tag |-> "obj", NodeId |-> node_id, Text |-> text, Value |-> value, Children |-> children]

\* dict.get(key, default)
Get(node, key, default) == IF node[key] = <<>> THEN default ELSE node[key][1]

\* Python truthiness of a value (`not x`, `x or y`)
Truthy(j) ==
    CASE j.tag = "null" -> FALSE
      [] j.tag = "str"  -> j.v # <<>>
      [] j.tag = "list" -> j.v # <<>>
      [] j.tag = "num"  -> Strip(j.v, {"0", ".", "-"}) # <<>>
      [] OTHER          -> TRUE

s_Unknown == <<"U", "n", "k", "n", "o", "w", "n">>

s_None == <<"N", "o", "n", "e">>

\* str(x), as prometheus_client applies it to every label value
PyStr(j) ==
    CASE j.tag = "str"  -> j.v
      [] j.tag = "null" -> s_None
      [] OTHER          -> j.v

(***************************************************************************)
(* Metric Name Mapper.                                                     *)
(***************************************************************************)
SENSOR_TYPE_UNITS ==
  << [type |-> <<"T", "e", "m", "p", "e", "r", "a", "t", "u", "r", "e">>, suffix |-> <<"c", "e", "l", "s", "i", "u", "s">>],
     [type |-> <<"P", "o", "w", "e", "r">>, suffix |-> <<"w", "a", "t", "t", "s">>],
     [type |-> <<"F", "a", "n">>, suffix |-> <<"r", "p", "m">>],
     [type |-> <<"L", "o", "a", "d">>, suffix |-> <<"p", "e", "r", "c", "e", "n", "t">>],
     [type |-> <<"C", "l", "o", "c", "k">>, suffix |-> <<"m", "e", "g", "a", "h", "e", "r", "t", "z">>],
     [type |-> <<"V", "o", "l", "t", "a", "g", "e">>, suffix |-> <<"v", "o", "l", "t", "s">>],
     [type |-> <<"D", "a", "t", "a">>, suffix |-> <<"g", "i", "g", "a", "b", "y", "t", "e", "s">>],
     [type |-> <<"T", "h", "r", "o", "u", "g", "h", "p", "u", "t">>, suffix |-> <<"b", "y", "t", "e", "s">>],
     [type |-> <<"L", "e", "v", "e", "l">>, suffix |-> <<"p", "e", "r", "c", "e", "n", "t">>],
     [type |-> <<"C", "o", "n", "t", "r", "o", "l">>, suffix |-> <<"p", "e", "r", "c", "e", "n", "t">>],
     [type |-> <<"H", "u", "m", "i", "d", "i", "t", "y">>, suffix |-> <<"p", "e", "r", "c", "e", "n", "t">>],
     [type |-> <<"N", "o", "i", "s", "e">>, suffix |-> <<"d", "e", "c", "i", "b", "e", "l", "s">>] >>

\* SENSOR_TYPE_UNITS.get(sensor_type, {}).get('suffix'): <<>> is None
UnitSuffix(sensor_type) ==
    LET hits == {i \in DOMAIN SENSOR_TYPE_UNITS : SENSOR_TYPE_UNITS[i].type = sensor_type}
    IN  IF hits = {} THEN <<>> ELSE <<SENSOR_TYPE_UNITS[CHOOSE i \in hits : TRUE].suffix>>

\* the characters [a-z0-9_] that re.sub keeps
NameChars == Range(LowerLetters) \cup Range(DigitChars) \cup {"_"}

\* re.sub(r'[^a-z0-9_]', '_', s)
Sanitize(s) == [i \in 1..Len(s) |-> IF s[i] \in NameChars THEN s[i] ELSE "_"]

s_ohm == <<"o", "h", "m", "_">>

sensor_type_to_metric_name(sensor_type) ==
    LET name == Sanitize(Lower(sensor_type))
        unit == UnitSuffix(sensor_type)
    IN  IF unit # <<>> /\ unit[1] # <<>>
        THEN s_ohm \o name \o <<"_">> \o unit[1]
        ELSE s_ohm \o name

(***************************************************************************)
(* Hardware Classifier.                                                    *)
(***************************************************************************)
HardwareMapping ==
  << [key |-> <<"i", "n", "t", "e", "l", "c", "p", "u">>, value |-> <<"C", "P", "U">>],
     [key |-> <<"a", "m", "d", "c", "p", "u">>, value |-> <<"C", "P", "U">>],
     [key |-> <<"c", "p", "u">>, value |-> <<"C", "P", "U">>],
     [key |-> <<"n", "v", "i", "d", "i", "a", "g", "p", "u">>, value |-> <<"G", "P", "U">>],
     [key |-> <<"a", "m", "d", "g", "p", "u">>, value |-> <<"G", "P", "U">>],
     [key |-> <<"i", "n", "t", "e", "l", "g", "p", "u">>, value |-> <<"G", "P", "U">>],
     [key |-> <<"g", "p", "u">>, value |-> <<"G", "P", "U">>],
     [key |-> <<"h", "d", "d">>, value |-> <<"S", "t", "o", "r", "a", "g", "e">>],
     [key |-> <<"s", "s", "d">>, value |-> <<"S", "t", "o", "r", "a", "g", "e">>],
     [key |-> <<"n", "v", "m", "e">>, value |-> <<"S", "t", "o", "r", "a", "g", "e">>],
     [key |-> <<"s", "t", "o", "r", "a", "g", "e">>, value |-> <<"S", "t", "o", "r", "a", "g", "e">>],
     [key |-> <<"r", "a", "m">>, value |-> <<"R", "A", "M">>],
     [key |-> <<"m", "e", "m", "o", "r", "y">>, value |-> <<"R", "A", "M">>],
     [key |-> <<"l", "p", "c">>, value |-> <<"M", "o", "t", "h", "e", "r", "b", "o", "a", "r", "d">>],
     [key |-> <<"s", "u", "p", "e", "r", "i", "o">>, value |-> <<"M", "o", "t", "h", "e", "r", "b", "o", "a", "r", "d">>],
     [key |-> <<"m", "o", "t", "h", "e", "r", "b", "o", "a", "r", "d">>, value |-> <<"M", "o", "t", "h", "e", "r", "b", "o", "a", "r", "d">>],
     [key |-> <<"n", "i", "c">>, value |-> <<"N", "e", "t", "w", "o", "r", "k">>],
     [key |-> <<"n", "e", "t", "w", "o", "r", "k">>, value |-> <<"N", "e", "t", "w", "o", "r", "k">>],
     [key |-> <<"b", "a", "t", "t", "e", "r", "y">>, value |-> <<"B", "a", "t", "t", "e", "r", "y">>] >>

\* hardware_id is a string here; None is the empty string's case (`not hardware_id`)
_infer_hardware_type(hardware_id) ==
    IF hardware_id = <<>> THEN s_Unknown
    ELSE LET segment == Lower(Split(Strip(hardware_id, {"/"}), "/")[1])
             hits == {i \in DOMAIN HardwareMapping : Contains(segment, HardwareMapping[i].key)}
         IN  IF hits # {}
             THEN HardwareMapping[CHOOSE i \in hits : \A j \in hits : i <= j].value
             ELSE IF segment # <<>> THEN Upper(segment) ELSE s_Unknown

(***************************************************************************)
(* Value Parser.  A float is kept exactly, as sign, integer part and the   *)
(* fraction's digits without trailing zeros, so that 52.0 = 52.            *)
(***************************************************************************)
IsDigits(s) == \A i \in DOMAIN s : s[i] \in Range(DigitChars)

RECURSIVE IntOf(_)
IntOf(digits) ==
    IF digits = <<>> THEN 0
    ELSE 10 * IntOf(SubSeq(digits, 1, Len(digits) - 1))
         + (IndexOf(DigitChars, digits[Len(digits)]) - 1)

Float(neg, int_digits, frac_digits) ==
    LET frac == StripRight(frac_digits, {"0"})
        int  == IntOf(int_digits)
    IN  [neg |-> neg /\ (int # 0 \/ frac # <<>>), int |-> int, frac |-> frac]

\* float(token) for the decimal notation [+-]digits[.digits]: <<>> is ValueError.
\* (Exponents, digit-group underscores, inf and nan are not in the value
\* alphabet of the model.)
PyFloat(token) ==
    LET signed == token # <<>> /\ token[1] \in {"+", "-"}
        body   == IF signed THEN Tail(token) ELSE token
        parts  == Split(body, ".")
    IN  IF Len(parts) = 1 /\ parts[1] # <<>> /\ IsDigits(parts[1])
        THEN <<Float(signed /\ token[1] = "-", parts[1], <<>>)>>
        ELSE IF Len(parts) = 2 /\ IsDigits(parts[1]) /\ IsDigits(parts[2])
                /\ (parts[1] # <<>> \/ parts[2] # <<>>)
        THEN <<Float(signed /\ token[1] = "-", parts[1], parts[2])>>
        ELSE <<>>

\* a variant of _parse_value without the try/except around float()
ParseValueUncaught(value_str) ==
    IF ~Truthy(value_str) THEN [raised |-> "none", value |-> <<>>]
    ELSE IF value_str.tag # "str"
    THEN [raised |-> "AttributeError", value |-> <<>>]
    ELSE LET stripped == Strip(value_str.v, Whitespace)
             token == IF stripped # <<>> THEN Remove(SplitWs(stripped)[1], ",") ELSE <<>>
         IN  [raised |-> IF PyFloat(token) = <<>> THEN "ValueError" ELSE "none",
              value |-> PyFloat(token)]

\* _parse_value: [raised |-> the exception that escapes ("none": returned),
\*                value |-> <<>> (None) or <<float>>]
_parse_value(value_str) ==
    IF ~Truthy(value_str) THEN [raised |-> "none", value |-> <<>>]
    ELSE IF value_str.tag # "str"
    THEN [raised |-> "AttributeError", value |-> <<>>]   \* no .strip() on a number
    ELSE LET stripped == Strip(value_str.v, Whitespace)
             token == IF stripped # <<>> THEN Remove(SplitWs(stripped)[1], ",") ELSE <<>>
         IN  [raised |-> "none", value |-> PyFloat(token)]

(***************************************************************************)
(* Tree Normalizer.  `results` is the defaultdict(list) in insertion       *)
(* order: a sequence of [type, readings].  An operator that can raise      *)
(* returns [raised |-> the exception ("none": it returned), ...].          *)
(***************************************************************************)
HasType(results, sensor_type) == \E i \in DOMAIN results : results[i].type = sensor_type

\* results[sensor_type].append(reading)
AppendReading(results, sensor_type, reading) ==
    IF HasType(results, sensor_type)
    THEN [i \in DOMAIN results |->
            IF results[i].type = sensor_type
            THEN [results[i] EXCEPT !.readings = Append(@, reading)]
            ELSE results[i]]
    ELSE Append(results, [type |-> sensor_type, readings |-> <<reading>>])

\* parts = [p for p in node_id.strip('/').split('/') if p], for a path NodeId
PathParts(node_id) ==
    IF node_id.tag = "str" /\ StartsWith(node_id.v, "/")
    THEN NonEmptyParts(Split(Strip(node_id.v, {"/"}), "/"))
    ELSE <<>>

\* a variant of ChildContext that takes every path of two segments or more
\* for a hardware node
ChildContextAnyPath(node, hardware_name, hardware_type) ==
    LET node_id == Get(node, "NodeId", JStr(<<>>))
    IN  IF Len(PathParts(node_id)) >= 2
        THEN [name |-> Get(node, "Text", hardware_name),
              type |-> JStr(_infer_hardware_type(node_id.v))]
        ELSE [name |-> hardware_name, type |-> hardware_type]

\* the context a node hands to its children (lines 83-85)
ChildContext(node, hardware_name, hardware_type) ==
    LET node_id == Get(node, "NodeId", JStr(<<>>))
    IN  IF Len(PathParts(node_id)) = 2
        THEN [name |-> Get(node, "Text", hardware_name),
              type |-> JStr(_infer_hardware_type(node_id.v))]
        ELSE [name |-> hardware_name, type |-> hardware_type]

\* the reading a sensor node appends (lines 92-97); value is <<>> (None) or <<float>>
MakeReading(node, value, hardware_name, hardware_type) ==
    [name          |-> Get(node, "Text", Get(node, "NodeId", JStr(<<>>))),
     value         |-> value,
     hardware      |-> IF Truthy(hardware_name) THEN hardware_name ELSE JStr(s_Unknown),
     hardware_type |-> IF Truthy(hardware_type) THEN hardware_type ELSE JStr(s_Unknown)]

RECURSIVE _traverse_node(_, _, _, _)
RECURSIVE TraverseChildren(_, _, _, _, _)

_traverse_node(node, results, hardware_name, hardware_type) ==
    LET parts    == PathParts(Get(node, "NodeId", JStr(<<>>)))
        isSensor == Len(parts) = 4
        parsed   == _parse_value(Get(node, "Value", JStr(<<>>)))
        ctx      == ChildContext(node, hardware_name, hardware_type)
        results2 == IF isSensor /\ parsed.value # <<>>
                    THEN AppendReading(results, Capitalize(parts[3]),
                            MakeReading(node, parsed.value, hardware_name, hardware_type))
                    ELSE results
        children == Get(node, "Children", JList(<<>>))
    IN  IF isSensor /\ parsed.raised # "none"
        THEN [raised |-> parsed.raised, results |-> results]
        ELSE IF children.tag \in {"null", "num"}
        THEN [raised |-> "TypeError", results |-> results2]   \* not iterable
        ELSE IF children.tag = "list"
        THEN TraverseChildren(children.v, 1, results2, ctx.name, ctx.type)
        ELSE [raised |-> "none", results |-> results2]        \* a str: no dict in it

\* for child in node.get('Children', []), from the i-th child on
TraverseChildren(children, i, results, hardware_name, hardware_type) ==
    IF i > Len(children) THEN [raised |-> "none", results |-> results]
    ELSE IF children[i].tag # "obj"
    THEN TraverseChildren(children, i + 1, results, hardware_name, hardware_type)
    ELSE LET r == _traverse_node(children[i], results, hardware_name, hardware_type)
         IN  IF r.raised # "none" THEN r
             ELSE TraverseChildren(children, i + 1, r.results, hardware_name, hardware_type)

(***************************************************************************)
(* Transport.  A response is [kind, body]: kind "ok" with the decoded      *)
(* body, or the requests.RequestException that requests.get,               *)
(* raise_for_status or resp.json() raised.                                 *)
(***************************************************************************)
TransportErrors == {"ConnectionError", "Timeout", "HTTPError", "JSONDecodeError"}

Ok(body) == [kind |-> "ok", body |-> body]

Failed(kind) == [kind |-> kind, body |-> JNone]

\* a variant of RequestHandler without the except clause
RequestHandlerReraises(response) == [raised |-> response.kind, data |-> <<>>]

\* except requests.RequestException: print the warning, return {}
RequestHandler(response) == [raised |-> "none", data |-> <<>>]

\* collect_all_sensors: [raised, data]
collect_all_sensors(response) ==
    IF response.kind \in TransportErrors
    THEN RequestHandler(response)
    ELSE IF response.body.tag # "obj"
    THEN [raised |-> "AttributeError", data |-> <<>>]              \* no .get on it
    ELSE LET r == _traverse_node(response.body, <<>>, JNone, JNone)
         IN  [raised |-> r.raised, data |-> IF r.raised = "none" THEN r.results ELSE <<>>]

(***************************************************************************)
(* Metric Registry.  The process state fetch works on is the record        *)
(* [gauges, registry, series, nextId, raised].                             *)
(***************************************************************************)
\* the empty dict
EmptyMap == [k \in {} |-> 0]

SetKey(map, k, v) == [x \in DOMAIN map \cup {k} |-> IF x = k THEN v ELSE map[x]]

\* Gauge(metric_name, description, labels): registers the name in the default
\* registry, which raises ValueError on a name it already holds
GaugeNew(st, sensor_type, metric_name) ==
    IF metric_name \in st.registry
    THEN [st EXCEPT !.raised = "ValueError"]
    ELSE [st EXCEPT !.registry = @ \cup {metric_name},
                    !.gauges = SetKey(@, sensor_type, [name |-> metric_name, id |-> st.nextId]),
                    !.nextId = @ + 1]

\* a variant of _get_or_create_gauge without the `not in self.gauges` test
GetOrCreateAlways(st, sensor_type) ==
    GaugeNew(st, sensor_type, sensor_type_to_metric_name(sensor_type))

_get_or_create_gauge(st, sensor_type) ==
    IF sensor_type \notin DOMAIN st.gauges
    THEN GaugeNew(st, sensor_type, sensor_type_to_metric_name(sensor_type))
    ELSE st

\* the labelled child gauge.labels(sensor=, hardware=, hardware_type=) names
SeriesKey(sensor_type, r) ==
    [type |-> sensor_type, sensor |-> PyStr(r.name),
     hardware |-> PyStr(r.hardware), hardware_type |-> PyStr(r.hardware_type)]

\* if r['value'] is not None: gauge.labels(...).set(r['value'])
SetSeries(st, sensor_type, r) ==
    IF r.value # <<>>
    THEN [st EXCEPT !.series = SetKey(@, SeriesKey(sensor_type, r), r.value[1])]
    ELSE st

RECURSIVE SetReadings(_, _, _, _)
\* for r in readings, from the j-th on
SetReadings(st, sensor_type, readings, j) ==
    IF j > Len(readings) THEN st
    ELSE SetReadings(SetSeries(st, sensor_type, readings[j]), sensor_type, readings, j + 1)

RECURSIVE FetchLoop(_, _, _)
\* for sensor_type, readings in data.items(), from the i-th item on
FetchLoop(st, items, i) ==
    IF i > Len(items) THEN st
    ELSE LET st2 == _get_or_create_gauge(st, items[i].type)
         IN  IF st2.raised # "none" THEN st2
             ELSE FetchLoop(SetReadings(st2, items[i].type, items[i].readings, 1), items, i + 1)

\* AppMetrics.fetch on the process state st with the transport's response
fetch(st, response) ==
    LET c == collect_all_sensors(response)
    IN  IF c.raised # "none" THEN [st EXCEPT !.raised = c.raised]
        ELSE FetchLoop(st, c.data, 1)

(***************************************************************************)
(* History: what the mappings returned so far say the series should hold.  *)
(***************************************************************************)
RECURSIVE LatestOfReadings(_, _, _, _)
LatestOfReadings(map, sensor_type, readings, j) ==
    IF j > Len(readings) THEN map
    ELSE LatestOfReadings(
            IF readings[j].value # <<>>
            THEN SetKey(map, SeriesKey(sensor_type, readings[j]), readings[j].value[1])
            ELSE map,
            sensor_type, readings, j + 1)

RECURSIVE LatestOf(_, _, _)
LatestOf(map, items, i) ==
    IF i > Len(items) THEN map
    ELSE LatestOf(LatestOfReadings(map, items[i].type, items[i].readings, 1), items, i + 1)

TypesOf(items) == {items[i].type : i \in DOMAIN items}

(***************************************************************************)
(* The poll loop.                                                          *)
(***************************************************************************)
\* the state of the process fetch works on
ProcState ==
    [gauges |-> gauges, registry |-> registry, series |-> series,
     nextId |-> nextId, raised |-> exc]

Init ==
    /\ pc = "fetch"
    /\ gauges = EmptyMap
    /\ registry = {}
    /\ series = EmptyMap
    /\ nextId = 1
    /\ exc = "none"
    /\ resp = <<>>
    /\ data = <<>>
    /\ observed = {}
    /\ latest = EmptyMap

\* one call of self.fetch() in run_metrics_loop (pc = "fetch"), the transport
\* answering `response`
FetchWith(response) ==
    /\ \E c \in {collect_all_sensors(response)} :
       \E st \in {fetch(ProcState, response)} :
           /\ gauges' = st.gauges
           /\ registry' = st.registry
           /\ series' = st.series
           /\ nextId' = st.nextId
           /\ exc' = st.raised
           /\ pc' = IF st.raised = "none" THEN "sleep" ELSE "crashed"
           /\ resp' = <<response>>
           /\ data' = c.data
           /\ observed' = observed \cup TypesOf(c.data)
           /\ latest' = LatestOf(latest, c.data, 1)

\* time.sleep(self.polling_interval_seconds), then the next iteration
Sleep ==
    /\ pc = "sleep"
    /\ pc' = "fetch"
    /\ resp' = <<>>
    /\ data' = <<>>
    /\ UNCHANGED <<gauges, registry, series, nextId, exc, observed, latest>>

(***************************************************************************)
(* The documents the backend answers with.                                 *)
(***************************************************************************)
Some(x) == <<x>>

Absent == <<>>

s_fan == <<"f", "a", "n">>

\* the identifier /<hardware>/0 of a hardware node
HardwareId(kind) == <<"/">> \o kind \o <<"/", "0">>

\* the identifier /cpu/0/<sensor type>/0 of a sensor node
SensorId(sensor_type) == HardwareId(<<"c", "p", "u">>) \o <<"/">> \o sensor_type \o <<"/", "0">>

SensorNode(sensor_type, text, value) ==
    JObj(Some(JStr(SensorId(sensor_type))), text, value, Some(JList(<<>>)))

\* a sensor node that is no leaf
SensorParent(sensor_type, text, value, children) ==
    JObj(Some(JStr(SensorId(sensor_type))), text, value, Some(JList(children)))

\* a node whose path has three segments: neither hardware nor sensor
OtherNode(children) ==
    JObj(Some(JStr(HardwareId(<<"c", "p", "u">>) \o <<"/", "f", "a", "n">>)),
         Some(JStr(<<"o">>)), Absent, Some(JList(children)))

HardwareNode(kind, text, children) ==
    JObj(Some(JStr(HardwareId(kind))), text, Absent, Some(JList(children)))

\* a header such as "Temperatures": its NodeId is no path
GroupNode(children) ==
    JObj(Some(JStr(<<"T", "e", "m", "p", "s">>)), Some(JStr(<<"T">>)), Absent, children)

\* the synthetic top node of data.json
RootNode(children) == JObj(Absent, Some(JStr(<<"S", "e", "n", "s", "o", "r">>)), Absent, Some(JList(children)))

\* sequences of length 0..n over S
SeqsUpTo(S, n) == UNION {[1..k -> S] : k \in 0..n}

\* what a top-level node of the polling specification may be
Tops ==
    {SensorNode(s_fan, Some(JStr(<<"s">>)), Some(JStr(v))) :
        v \in {<<"1">>, <<"2", " ", "R">>, <<>>}}
    \cup {SensorNode(t, Some(JStr(<<"s">>)), Some(JStr(<<"1">>))) :
        t \in {<<"a", "-", "b">>, <<"a", "_", "b">>}}
    \cup {SensorNode(s_fan, Some(JStr(<<>>)), Some(JStr(<<"1">>))),     \* empty display text
          SensorNode(s_fan, Some(JStr(<<"s">>)), Some(JNum(<<"5">>))),  \* "Value": 5
          HardwareNode(<<"c", "p", "u">>, Some(JStr(<<"H">>)),
              <<SensorNode(s_fan, Some(JStr(<<"s">>)), Some(JStr(<<"1">>)))>>),
          GroupNode(Some(JNone))}                                       \* "Children": null

\* the answers of the transport in the polling specification
Responses ==
    {Failed(k) : k \in TransportErrors}
    \cup {Ok(RootNode(tops)) : tops \in SeqsUpTo(Tops, MaxTops)}
    \cup {Ok(JList(<<>>))}                                              \* a JSON array at the top

Fetch ==
    /\ pc = "fetch"
    /\ \E response \in Responses : FetchWith(response)

Next == Fetch \/ Sleep

\* the process polling for ever
Spec == Init /\ [][Next]_vars

(***************************************************************************)
(* The first tick of a fresh process over every tree of at most MaxNodes   *)
(* nodes below the root.                                                   *)
(***************************************************************************)
NodeKinds == {"group", "hw_named", "hw_unnamed", "hw_empty", "sensor", "other"}

KindNode(kind, children) ==
    CASE kind = "group"      -> GroupNode(Some(JList(children)))
      [] kind = "hw_named"   -> HardwareNode(<<"c", "p", "u">>, Some(JStr(<<"H">>)), children)
      [] kind = "hw_unnamed" -> HardwareNode(<<"x", "y">>, Absent, children)
      [] kind = "hw_empty"   -> HardwareNode(<<"s", "s", "d">>, Some(JStr(<<>>)), children)
      [] kind = "sensor"     -> SensorParent(s_fan, Some(JStr(<<"s">>)), Some(JStr(<<"1">>)), children)
      [] kind = "other"      -> OtherNode(children)

\* the preorder depth sequences of the forests of n nodes
DepthSeqs(n) ==
    {ds \in [1..n -> 1..n] :
        /\ n > 0 => ds[1] = 1
        /\ \A i \in 1..(n - 1) : ds[i + 1] <= ds[i] + 1}

\* the last node of the subtree whose root is node lo
SubtreeEnd(depths, lo, hi) ==
    LET after == {j \in (lo + 1)..hi : depths[j] <= depths[lo]}
    IN  IF after = {} THEN hi ELSE (CHOOSE j \in after : \A k \in after : j <= k) - 1

RECURSIVE BuildForest(_, _, _, _)
\* the forest of the nodes lo..hi, given in preorder with their kinds and depths
BuildForest(kinds, depths, lo, hi) ==
    IF lo > hi THEN <<>>
    ELSE LET end == SubtreeEnd(depths, lo, hi)
         IN  <<KindNode(kinds[lo], BuildForest(kinds, depths, lo + 1, end))>>
             \o BuildForest(kinds, depths, end + 1, hi)

\* the document whose root holds that forest
TreeResponse(kinds, depths) == Ok(RootNode(BuildForest(kinds, depths, 1, Len(kinds))))

FetchTree ==
    /\ pc = "fetch"
    /\ \E n \in 0..MaxNodes : \E kinds \in [1..n -> NodeKinds] : \E depths \in DepthSeqs(n) :
          FetchWith(TreeResponse(kinds, depths))

SpecTraverse == Init /\ [][FetchTree]_vars

(***************************************************************************)
(* The first tick of a fresh process over one sensor node, for every       *)
(* value string of at most MaxLen characters and every formatted number.   *)
(***************************************************************************)
ValueAlphabet == {"0", "1", ".", ",", " ", "R", "-"}

\* how a number is written: a leading group, three-digit groups joined by
\* sep, an optional fraction, an optional unit token
FormatValue(head, groups, sep, frac, unit) ==
    LET RECURSIVE Join(_)
        Join(i) == IF i > Len(groups) THEN <<>> ELSE sep \o groups[i] \o Join(i + 1)
    IN  head \o Join(1) \o frac \o unit

Heads == {<<"1">>, <<"5", "2">>}

Groups == {<<"2", "3", "4">>, <<"0", "0", "0">>}

Separators == {<<>>, <<",">>, <<" ">>}

Fractions == {<<>>, <<".", "0">>, <<".", "5">>}

Units == {<<>>, <<" ", "R">>}

\* the formatted numbers of at most n three-digit groups
FormattedValues(n) ==
    {FormatValue(h, g, sep, f, u) :
        h \in Heads, g \in SeqsUpTo(Groups, n), sep \in Separators,
        f \in Fractions, u \in Units}

\* the "Value" entries: none, null, every string of at most len characters,
\* every formatted number of at most n groups
ValueInputs(len, n) ==
    {Absent, Some(JNone)}
    \cup {Some(JStr(s)) : s \in SeqsUpTo(ValueAlphabet, len) \cup FormattedValues(n)}

\* the document holding one sensor node with the "Value" entry v
ValueResponse(v) == Ok(RootNode(<<SensorNode(s_fan, Some(JStr(<<"s">>)), v)>>))

FetchValue ==
    /\ pc = "fetch"
    /\ \E v \in ValueInputs(MaxLen, MaxGroups) : FetchWith(ValueResponse(v))

SpecParse == Init /\ [][FetchValue]_vars

(***************************************************************************)
(* Properties of the poll loop (Spec).                                     *)
(***************************************************************************)
\* the response of the tick that just ran
LastResponse == resp[1]

TickRan == resp # <<>>

\* C1: after any sequence of ticks the registry holds one handle for each
\* sensor type the normalizer has returned so far, and for no other type.
C1_HandleForEveryObservedType == DOMAIN gauges = observed

\* C2: a tick whose transport fails yields the empty mapping and leaves the
\* registry's handles and every series value as they were, the process keeps
\* running, and whatever a later tick receives acts on the state exactly as it
\* would have acted had the failed tick not run.
C2_FailedTickChangesNothing ==
    [][(pc = "fetch" /\ resp' # <<>> /\ resp'[1].kind \in TransportErrors)
        => /\ data' = <<>>
           /\ pc' = "sleep" /\ exc' = "none"
           /\ gauges' = gauges /\ registry' = registry /\ series' = series
           /\ \A r \in Responses : fetch(ProcState', r) = fetch(ProcState, r)]_vars

\* C2 witness: a tick has just failed in a process that had set series before.
C2_Witness ==
    /\ pc = "sleep" /\ TickRan /\ LastResponse.kind \in TransportErrors
    /\ DOMAIN series # {}

\* C5: no time series ever set has an empty sensor, hardware or hardware_type
\* label value.
C5_NoEmptyLabel ==
    \A k \in DOMAIN series : k.sensor # <<>> /\ k.hardware # <<>> /\ k.hardware_type # <<>>

\* the characters of a valid metric name, ^[a-z0-9_]+$
ValidName(name) == name # <<>> /\ \A i \in DOMAIN name : name[i] \in NameChars

\* C7: registering a sensor type seen for the first time never fails, the
\* family it creates is named ohm_<sanitized type>[_<unit>], a valid name, and
\* is the family of no other sensor type.
C7_RegistrationNeverFails ==
    /\ exc # "ValueError"
    /\ \A t \in observed :
        /\ t \in DOMAIN gauges
        /\ gauges[t].name = sensor_type_to_metric_name(t)
        /\ ValidName(gauges[t].name)
        /\ \A u \in DOMAIN gauges : u # t => gauges[u].name # gauges[t].name

\* C8: no tick ends the poll loop, whatever the transport did and whatever
\* document the backend returned.
C8_NoTickIsFatal == pc # "crashed"

\* C9: after any sequence of ticks every series holds the value of the most
\* recent reading the normalizer returned for its sensor type and labels, and
\* there is a series for every such reading.
C9_SeriesHoldLatestReading == series = latest

\* C10: a second tick over the document the last tick received leaves the
\* handles, the registered names and every series value as the first tick left
\* them.
C10_SecondTickChangesNothing ==
    [][(pc = "fetch" /\ pc' = "sleep") => fetch(ProcState', resp'[1]) = ProcState']_vars

\* C10 witness: a tick has just registered a gauge and set a series of it.
C10_Witness ==
    /\ pc = "sleep" /\ TickRan /\ data # <<>>
    /\ \E k \in DOMAIN series : k.type \in TypesOf(data)

(***************************************************************************)
(* Properties of the value parser (SpecParse).                             *)
(***************************************************************************)
\* the "Value" entry of the one sensor node of the document
SensorValue == LastResponse.body.Children[1].v[1].Value

Least(S) == CHOOSE i \in S : \A j \in S : i <= j

\* the first whitespace-delimited token of a string (<<>>: there is none)
LeadingToken(s) ==
    LET inked == {i \in DOMAIN s : s[i] \notin Whitespace}
    IN  IF inked = {} THEN <<>>
        ELSE LET blanks == {i \in Least(inked)..Len(s) : s[i] \in Whitespace}
             IN  SubSeq(s, Least(inked), IF blanks = {} THEN Len(s) ELSE Least(blanks) - 1)

\* a token that is a decimal number once its thousands commas are dropped:
\* an optional sign first, digits, at most one point, at least one digit
NumericToken(token) ==
    LET kept   == {i \in DOMAIN token : token[i] # ","}
        digits == {i \in kept : token[i] \in Range(DigitChars)}
        points == {i \in kept : token[i] = "."}
        signs  == {i \in kept : token[i] \in {"+", "-"}}
    IN  /\ kept = digits \cup points \cup signs
        /\ digits # {}
        /\ Cardinality(points) <= 1
        /\ signs \subseteq {Least(kept)}

\* a "Value" entry that is absent, null, empty, blank or has no leading number
Unparsable(v) ==
    \/ v = Absent
    \/ v[1].tag = "null"
    \/ v[1].tag = "str" /\ ~NumericToken(LeadingToken(v[1].v))

\* the digits of the groups, one after the other
Digits(groups) == FormatValue(<<>>, groups, <<>>, <<>>, <<>>)

\* C3: a number written with or without thousands separators (comma or
\* space), with or without a fraction and a unit token, parses to the full
\* number: the document's one sensor node yields one reading of that value.
C3_FormattedNumberParses ==
    \A h \in Heads, g \in SeqsUpTo(Groups, MaxGroups), sep \in Separators,
       f \in Fractions, u \in Units :
        (TickRan /\ SensorValue = Some(JStr(FormatValue(h, g, sep, f, u))))
        => /\ Len(data) = 1
           /\ Len(data[1].readings) = 1
           /\ data[1].readings[1].value
                = <<Float(FALSE, h \o Digits(g), IF f = <<>> THEN <<>> ELSE Tail(f))>>

ChildrenOf(node) == Get(node, "Children", JList(<<>>)).v

RECURSIVE ValidPath(_, _)
ValidPath(node, path) ==
    \/ path = <<>>
    \/ /\ Head(path) \in DOMAIN ChildrenOf(node)
       /\ ValidPath(ChildrenOf(node)[Head(path)], Tail(path))

RECURSIVE NodeAt(_, _)
NodeAt(node, path) ==
    IF path = <<>> THEN node ELSE NodeAt(ChildrenOf(node)[Head(path)], Tail(path))

\* the number of segments of a node's path identifier
Segments(node) == Len(PathParts(Get(node, "NodeId", JStr(<<>>))))

\* the paths (child indices from the root) of the sensor nodes of a document
SensorPaths(root) ==
    {p \in SeqsUpTo(1..MaxNodes, MaxNodes) : ValidPath(root, p) /\ Segments(NodeAt(root, p)) = 4}

\* the ancestors of the node at path p that are hardware nodes
HardwareAncestors(root, p) ==
    {q \in {SubSeq(p, 1, k) : k \in 0..(Len(p) - 1)} : Segments(NodeAt(root, q)) = 2}

Nearest(paths) == CHOOSE q \in paths : \A r \in paths : Len(r) <= Len(q)

\* p comes before q in preorder
Before(p, q) ==
    \E k \in 1..Len(q) :
        /\ k <= Len(p) + 1
        /\ SubSeq(p, 1, k - 1) = SubSeq(q, 1, k - 1)
        /\ k = Len(p) + 1 \/ p[k] < q[k]

RECURSIVE InPreorder(_)
InPreorder(paths) ==
    IF paths = {} THEN <<>>
    ELSE LET first == CHOOSE p \in paths : \A q \in paths \ {p} : Before(p, q)
         IN  <<first>> \o InPreorder(paths \ {first})

\* the hardware type of the nearest hardware ancestor
ExpectedType(root, p) ==
    LET hw == HardwareAncestors(root, p)
    IN  IF hw = {} THEN s_Unknown
        ELSE _infer_hardware_type(Get(NodeAt(root, Nearest(hw)), "NodeId", JNone).v)

\* the display text of the nearest hardware ancestor that has one
InheritedText(root, p) ==
    LET named == {q \in HardwareAncestors(root, p) : NodeAt(root, q).Text # Absent}
    IN  IF named = {} THEN JNone ELSE NodeAt(root, Nearest(named)).Text[1]

\* the hardware labels of the readings returned, in the order returned
ReturnedContexts ==
    IF data = <<>> THEN <<>>
    ELSE [j \in DOMAIN data[1].readings |->
            <<PyStr(data[1].readings[j].hardware), PyStr(data[1].readings[j].hardware_type)>>]

\* C6 as stated: every reading carries the display text of its nearest
\* ancestor hardware node that has one, whatever that text is, and the
\* classifier's result for its nearest ancestor hardware node; it carries
\* Unknown where there is no such node.
C6_ContextOfNearestHardware ==
    TickRan =>
        LET root  == LastResponse.body
            paths == InPreorder(SensorPaths(root))
        IN  ReturnedContexts =
                [j \in DOMAIN paths |->
                    <<IF InheritedText(root, paths[j]) = JNone THEN s_Unknown
                      ELSE PyStr(InheritedText(root, paths[j])),
                      ExpectedType(root, paths[j])>>]

\* C6 as amended: the same, with Unknown for the hardware name where the
\* inherited display text is the empty string.
C6_ContextOfNearestHardwareOrUnknown ==
    TickRan =>
        LET root  == LastResponse.body
            paths == InPreorder(SensorPaths(root))
        IN  /\ Len(data) <= 1
            /\ ReturnedContexts =
                [j \in DOMAIN paths |->
                    <<IF Truthy(InheritedText(root, paths[j]))
                      THEN PyStr(InheritedText(root, paths[j]))
                      ELSE s_Unknown,
                      ExpectedType(root, paths[j])>>]

\* C6 witness: a reading under a hardware node without display text inside a
\* named hardware node carries the outer name and the inner type.
C6_Witness ==
    /\ TickRan /\ pc = "sleep"
    /\ \E j \in DOMAIN ReturnedContexts : ReturnedContexts[j] = <<<<"H">>, <<"X", "Y">>>>

=============================================================================
